---- MODULE Spec2Model ----
(***************************************************************************)
(* Model of package model (src/model/model.go): the Heikin Ashi            *)
(* recurrence, the OHLC series container and Dataframe.Sample with the     *)
(* storage the sample shares with its dataframe, Account.Balance and       *)
(* Candle.Less.                                                            *)
(*                                                                         *)
(* Numbers.  A float64 price is modelled by an integer counting units of   *)
(* 1/Scale.  Raw prices are whole multiples of Scale and Scale is a power  *)
(* of two large enough that every /2 and /4 the bounded runs perform is    *)
(* exact, as it is in float64 for these dyadic values.  Strings that are   *)
(* ordered (Candle.Pair) are sequences of byte values.                     *)
(***************************************************************************)
EXTENDS Integers, Sequences, FiniteSets, TLC

VARIABLES
    ha,        \* the *HeikinAshi recurrence: [PreviousHACandle]
    calls,     \* CalculateHeikinAshi calls made on ha since NewHeikinAshi
    before,    \* ha.PreviousHACandle as it was when the last call began
    raw,       \* the raw candle handed to the last call
    ret,       \* the candle the last call returned
    mem,       \* backing arrays of the core columns, shared by df and s
    df,        \* the Dataframe
    s,         \* the Dataframe last returned by Sample
    op,        \* the last operation on df / s and its arguments
    pre,       \* mem, df and s as they were when the last operation began
    res,       \* the Candle last returned by Last
    panicked,  \* a run-time panic (slice or index out of range) ended the run
    steps,     \* operations performed on df / s
    account,   \* the Account
    balArgs,   \* <<assetTick, quoteTick>> of the last Balance call
    balRes,    \* <<assetBalance, quoteBalance>> it returned
    ca,        \* Candle A of the comparison
    cb,        \* Candle B of the comparison
    lessRes    \* [ab |-> A.Less(B), ba |-> B.Less(A)] once compared

haVars == <<ha, calls, before, raw, ret>>
dfVars == <<mem, df, s, op, pre, res, panicked, steps>>
acctVars == <<account, balArgs, balRes>>
lessVars == <<ca, cb, lessRes>>
vars == <<ha, calls, before, raw, ret, mem, df, s, op, pre, res, panicked,
          steps, account, balArgs, balRes, ca, cb, lessRes>>

----------------------------------------------------------------------------
(* Bounds *)

MaxCalls == 3
MaxLen == 3
MaxOps == 2
MaxAccount == 3
MaxTime == 2
MaxPairLen == 2

\* math.Max and math.Min on finite values.
Max(a, b) == IF a >= b THEN a ELSE b

Min(a, b) == IF a <= b THEN a ELSE b

\* Binary digits kept behind the point: one call of the recurrence needs at
\* most one digit more than its inputs' open and two more for close, and one
\* conversion of a series of length n at most n + 1.
ScaleBits == Max(MaxCalls + 1, MaxOps * (MaxLen + 1))

Scale == 2 ^ ScaleBits

\* Raw open and close prices, and raw low and high prices, in units of the
\* currency.  A raw candle's low may exceed its high.
Prices == {0, 1, 2}

Extremes == {0, 2}

----------------------------------------------------------------------------
(* Candle *)

ZeroCandle ==
    [Pair |-> <<>>, Time |-> 0, UpdatedAt |-> 0, Open |-> 0, Close |-> 0,
     Low |-> 0, High |-> 0, Volume |-> 0, Complete |-> FALSE]

Empty(c) == c.Pair = <<>> /\ c.Close = 0 /\ c.Open = 0 /\ c.Volume = 0

NewHeikinAshi == [PreviousHACandle |-> ZeroCandle]

\* CalculateHeikinAshi without the first-candle rule: seeds from the stored
\* previous candle even when it is the empty one.
CalculateHeikinAshiNoSeed(h, c) ==
    LET prev == h.PreviousHACandle
        hkOpen == (prev.Open + prev.Close) \div 2
        hkClose == (c.Open + c.High + c.Low + c.Close) \div 4
        hk == [ZeroCandle EXCEPT
                 !.Open = hkOpen,
                 !.Close = hkClose,
                 !.High = Max(c.High, Max(hkOpen, hkClose)),
                 !.Low = Min(c.Low, Min(hkOpen, hkClose))]
    IN  [ha |-> [PreviousHACandle |-> hk], ret |-> hk]

\* CalculateHeikinAshi with high' and low' taken from the raw candle alone.
CalculateHeikinAshiRawHL(h, c) ==
    LET prev == h.PreviousHACandle
        seed == Empty(prev)
        openValue == IF seed THEN c.Open ELSE prev.Open
        closeValue == IF seed THEN c.Close ELSE prev.Close
        hkOpen == (openValue + closeValue) \div 2
        hkClose == (c.Open + c.High + c.Low + c.Close) \div 4
        hk == [ZeroCandle EXCEPT
                 !.Open = hkOpen,
                 !.Close = hkClose,
                 !.High = c.High,
                 !.Low = c.Low]
    IN  [ha |-> [PreviousHACandle |-> hk], ret |-> hk]

\* (ha *HeikinAshi) CalculateHeikinAshi(c): the new recurrence and the
\* candle returned.
CalculateHeikinAshi(h, c) ==
    LET prev == h.PreviousHACandle
        seed == Empty(prev)
        openValue == IF seed THEN c.Open ELSE prev.Open
        closeValue == IF seed THEN c.Close ELSE prev.Close
        hkOpen == (openValue + closeValue) \div 2
        hkClose == (c.Open + c.High + c.Low + c.Close) \div 4
        hk == [ZeroCandle EXCEPT
                 !.Open = hkOpen,
                 !.Close = hkClose,
                 !.High = Max(c.High, Max(hkOpen, hkClose)),
                 !.Low = Min(c.Low, Min(hkOpen, hkClose))]
    IN  [ha |-> [PreviousHACandle |-> hk], ret |-> hk]

\* (c Candle) ToHeikinAshi(ha): the new recurrence and the candle returned.
CandleToHeikinAshi(c, h) ==
    LET r == CalculateHeikinAshi(h, c)
        haCandle == r.ret
    IN  [ha |-> r.ha,
         ret |-> [Pair |-> c.Pair, Open |-> haCandle.Open,
                  High |-> haCandle.High, Low |-> haCandle.Low,
                  Close |-> haCandle.Close, Volume |-> c.Volume,
                  Complete |-> c.Complete, Time |-> c.Time,
                  UpdatedAt |-> c.UpdatedAt]]

\* The raw candles a feed hands to the recurrence.
RawCandles ==
    {[Pair |-> p, Time |-> 1, UpdatedAt |-> 1, Open |-> o * Scale,
      Close |-> c * Scale, Low |-> l * Scale, High |-> h * Scale,
      Volume |-> Scale, Complete |-> TRUE] :
        p \in {<<97>>}, o \in Prices, c \in Prices, l \in Extremes,
        h \in Extremes}

----------------------------------------------------------------------------
(* The recurrence on its own *)

HAInit ==
    /\ ha = NewHeikinAshi
    /\ calls = 0
    /\ before = ZeroCandle
    /\ raw = ZeroCandle
    /\ ret = ZeroCandle

DoNewHeikinAshi ==
    /\ calls > 0
    /\ ha' = NewHeikinAshi
    /\ calls' = 0
    /\ before' = ZeroCandle
    /\ raw' = ZeroCandle
    /\ ret' = ZeroCandle
    /\ UNCHANGED <<dfVars, acctVars, lessVars>>

DoCalculateHeikinAshi ==
    /\ calls < MaxCalls
    /\ \E c \in RawCandles :
         LET r == CalculateHeikinAshi(ha, c)
         IN  /\ ha' = r.ha
             /\ ret' = r.ret
             /\ raw' = c
             /\ before' = ha.PreviousHACandle
    /\ calls' = calls + 1
    /\ UNCHANGED <<dfVars, acctVars, lessVars>>

----------------------------------------------------------------------------
(* OHLC and Dataframe *)

\* The columns Sample reslices, in the order it reslices them.
CoreCols == <<"Close", "Open", "Low", "High", "Volume", "Time">>

CoreColSet == {CoreCols[j] : j \in 1..Len(CoreCols)}

\* A Go slice of a column: off entries into the column's backing array, len
\* entries long.  The nil slice is the empty slice at offset 0.
NilSlice == [off |-> 0, len |-> 0]

\* float64 zero as a quotient; ChangePercent holds quotients num/den, a
\* zero den standing for the NaN or infinity the division by zero gives.
ZeroQuot == [num |-> 0, den |-> 1]

\* The zero-value Dataframe.  LastUpdate and Metadata, which no operation
\* here reads or writes, are left out.
ZeroDataframe ==
    [Pair |-> <<>>, Close |-> NilSlice, Open |-> NilSlice, High |-> NilSlice,
     Low |-> NilSlice, Volume |-> NilSlice, ChangePercent |-> <<>>,
     IsBullMarket |-> <<>>, Time |-> NilSlice, IsHeikinAshi |-> FALSE]

\* x[i] for slice x of column col, i counted from 0 as in Go.
Load(m, col, x, i) == m[col][x.off + i + 1]

\* x[i] = v
Store(m, col, x, i, v) == [m EXCEPT ![col][x.off + i + 1] = v]

\* The entries of slice x of column col, in order.
View(m, col, x) == [j \in 1..x.len |-> m[col][x.off + j]]

\* Sample that reslices every column one entry too early.
SampleOffByOne(d, positions) ==
    LET size == d.Time.len
        start == size - positions
    IN  IF start <= 0
        THEN [panic |-> FALSE, out |-> d]
        ELSE [panic |-> FALSE,
              out |-> [col \in DOMAIN d |->
                         IF col \in CoreColSet
                         THEN [off |-> d[col].off + start - 1,
                               len |-> d[col].len - start + 1]
                         ELSE d[col]]]

\* (df Dataframe) Sample(positions): the dataframe returned, or the panic of
\* x[start:] on a slice shorter than start.
Sample(d, positions) ==
    LET size == d.Time.len
        start == size - positions
    IN  IF start <= 0
        THEN [panic |-> FALSE, out |-> d]
        ELSE IF \E col \in CoreColSet : start > d[col].len
             THEN [panic |-> TRUE, out |-> d]
             ELSE [panic |-> FALSE,
                   out |-> [col \in DOMAIN d |->
                              IF col \in CoreColSet
                              THEN [off |-> d[col].off + start,
                                    len |-> d[col].len - start]
                              ELSE d[col]]]

\* Whether Candle(i) indexes every column it reads within its length.
InRange(d, i) ==
    \A col \in CoreColSet : 0 <= i /\ i < d[col].len

\* (df *OHLC) Candle(i)
CandleAt(d, m, i) ==
    [ZeroCandle EXCEPT
       !.Time = Load(m, "Time", d.Time, i),
       !.Open = Load(m, "Open", d.Open, i),
       !.Close = Load(m, "Close", d.Close, i),
       !.Low = Load(m, "Low", d.Low, i),
       !.High = Load(m, "High", d.High, i),
       !.Volume = Load(m, "Volume", d.Volume, i)]

\* Last with the offset counted from length instead of length - 1.
LastOffByOne(d, m, index) ==
    LET length == d.Close.len
        position == IF Len(index) > 0 THEN index[1] ELSE 0
        i == length - position
    IN  IF length = 0
        THEN [panic |-> FALSE, out |-> ZeroCandle]
        ELSE IF InRange(d, i)
             THEN [panic |-> FALSE, out |-> CandleAt(d, m, i)]
             ELSE [panic |-> TRUE, out |-> ZeroCandle]

\* (df *OHLC) Last(index ...int): the candle returned, or the panic of an
\* index out of range.
Last(d, m, index) ==
    LET length == d.Close.len
        position == IF Len(index) > 0 THEN index[1] ELSE 0
        i == length - 1 - position
    IN  IF length = 0
        THEN [panic |-> FALSE, out |-> ZeroCandle]
        ELSE IF InRange(d, i)
             THEN [panic |-> FALSE, out |-> CandleAt(d, m, i)]
             ELSE [panic |-> TRUE, out |-> ZeroCandle]

\* The assignments to the five columns without the one to df.Low[i].
WriteCandleNoLow(m, d, i, candle) ==
    Store(Store(Store(Store(m,
        "Close", d.Close, i, candle.Close),
        "Open", d.Open, i, candle.Open),
        "High", d.High, i, candle.High),
        "Volume", d.Volume, i, candle.Volume)

\* df.Close[i] = candle.Close ... df.Volume[i] = candle.Volume
WriteCandle(m, d, i, candle) ==
    Store(Store(Store(Store(Store(m,
        "Close", d.Close, i, candle.Close),
        "Open", d.Open, i, candle.Open),
        "Low", d.Low, i, candle.Low),
        "High", d.High, i, candle.High),
        "Volume", d.Volume, i, candle.Volume)

\* df.ChangePercent[i] and df.IsBullMarket[i] from the close cl and the open
\* opn read back from the columns.
SetDerived(d, i, cl, opn) ==
    [d EXCEPT !.ChangePercent[i + 1] = [num |-> cl - opn, den |-> opn],
              !.IsBullMarket[i + 1] = (cl > opn)]

\* The loop's state once the columns hold the smoothed candle (m5) and the
\* recurrence has moved on (h).
HADerive(st, i, m5, h) ==
    [d |-> SetDerived(st.d, i, Load(m5, "Close", st.d.Close, i),
                      Load(m5, "Open", st.d.Open, i)),
     m |-> m5, h |-> h, panic |-> FALSE]

\* The loop's state after the assignments of one iteration, r being what
\* candle.ToHeikinAshi(ha) gave.
HAAssign(st, i, r) == HADerive(st, i, WriteCandle(st.m, st.d, i, r.ret), r.ha)

\* The loop body with a recurrence created anew for every index.
HAStepFreshHA(st, i) ==
    IF st.panic \/ ~InRange(st.d, i) \/ i >= Len(st.d.ChangePercent)
    THEN [st EXCEPT !.panic = TRUE]
    ELSE HAAssign(st, i,
                  CandleToHeikinAshi(CandleAt(st.d, st.m, i), NewHeikinAshi))

\* One iteration of ToHeikinAshi's loop, for index i, on
\* st = [d: the receiver, m: the backing arrays, h: the recurrence, panic].
HAStep(st, i) ==
    IF st.panic \/ ~InRange(st.d, i) \/ i >= Len(st.d.ChangePercent)
    THEN [st EXCEPT !.panic = TRUE]
    ELSE HAAssign(st, i, CandleToHeikinAshi(CandleAt(st.d, st.m, i), st.h))

\* for i := range df.Time, from index i on.
RECURSIVE HALoop(_, _)
HALoop(st, i) ==
    IF i >= st.d.Time.len \/ st.panic
    THEN st
    ELSE HALoop(HAStep(st, i), i + 1)

\* (df *OHLC) ToHeikinAshi(): the receiver and the backing arrays afterwards.
ToHeikinAshi(d, m) ==
    LET n == d.Close.len
        d0 == [d EXCEPT !.ChangePercent = [j \in 1..n |-> ZeroQuot],
                        !.IsBullMarket = [j \in 1..n |-> FALSE]]
        fin == HALoop([d |-> d0, m |-> m, h |-> NewHeikinAshi,
                       panic |-> FALSE], 0)
    IN  IF fin.panic
        THEN [d |-> fin.d, m |-> fin.m, panic |-> TRUE]
        ELSE [d |-> [fin.d EXCEPT !.IsHeikinAshi = TRUE], m |-> fin.m,
              panic |-> FALSE]

----------------------------------------------------------------------------
(* A dataframe, its samples and the operations on them *)

\* Open, close, high and low of the candles a series is built from: an
\* all-zero candle, a rising one and a falling one at a higher price, so
\* that a smoothed open can lie outside the raw candle's range.
SeriesCandles ==
    {<<0, 0, 0, 0>>, <<1, 2, 2, 1>>, <<4, 3, 4, 3>>}

Targets == {"df", "s"}

NoOp == [name |-> "none", target |-> "df", n |-> 0, index |-> <<>>]

DFInit ==
    /\ \E len \in 0..MaxLen :
         \E cs \in [1..len -> SeriesCandles] :
            /\ mem = [Open |-> [j \in 1..len |-> cs[j][1] * Scale],
                      Close |-> [j \in 1..len |-> cs[j][2] * Scale],
                      High |-> [j \in 1..len |-> cs[j][3] * Scale],
                      Low |-> [j \in 1..len |-> cs[j][4] * Scale],
                      Volume |-> [j \in 1..len |-> j * Scale],
                      Time |-> [j \in 1..len |-> j]]
            /\ df = [ZeroDataframe EXCEPT
                       !.Pair = <<97>>,
                       !.Close = [off |-> 0, len |-> len],
                       !.Open = [off |-> 0, len |-> len],
                       !.High = [off |-> 0, len |-> len],
                       !.Low = [off |-> 0, len |-> len],
                       !.Volume = [off |-> 0, len |-> len],
                       !.Time = [off |-> 0, len |-> len]]
    /\ s = ZeroDataframe
    /\ op = NoOp
    /\ pre = [mem |-> mem, df |-> df, s |-> s]
    /\ res = ZeroCandle
    /\ panicked = FALSE
    /\ steps = 0

Receiver(t) == IF t = "df" THEN df ELSE s

Begin ==
    /\ ~panicked
    /\ steps < MaxOps
    /\ steps' = steps + 1
    /\ pre' = [mem |-> mem, df |-> df, s |-> s]

\* s = df.Sample(n) or s = s.Sample(n)
DoSample ==
    /\ Begin
    /\ \E t \in Targets, n \in -1..(MaxLen + 1) :
         LET r == Sample(Receiver(t), n)
         IN  /\ op' = [NoOp EXCEPT !.name = "Sample", !.target = t, !.n = n]
             /\ panicked' = r.panic
             /\ s' = IF r.panic THEN s ELSE r.out
    /\ UNCHANGED <<mem, df, res>>
    /\ UNCHANGED <<haVars, acctVars, lessVars>>

\* df.ToHeikinAshi() or s.ToHeikinAshi()
DoToHeikinAshi ==
    /\ Begin
    /\ \E t \in Targets :
         LET r == ToHeikinAshi(Receiver(t), mem)
         IN  /\ op' = [NoOp EXCEPT !.name = "ToHeikinAshi", !.target = t]
             /\ panicked' = r.panic
             /\ mem' = r.m
             /\ df' = IF t = "df" THEN r.d ELSE df
             /\ s' = IF t = "s" THEN r.d ELSE s
    /\ UNCHANGED res
    /\ UNCHANGED <<haVars, acctVars, lessVars>>

\* df.Last(), df.Last(k), s.Last() or s.Last(k)
DoLast ==
    /\ Begin
    /\ \E t \in Targets, index \in {<<>>} \cup {<<k>> : k \in 0..MaxLen} :
         LET r == Last(Receiver(t), mem, index)
         IN  /\ op' = [NoOp EXCEPT !.name = "Last", !.target = t,
                                   !.index = index]
             /\ panicked' = r.panic
             /\ res' = IF r.panic THEN res ELSE r.out
    /\ UNCHANGED <<mem, df, s>>
    /\ UNCHANGED <<haVars, acctVars, lessVars>>

----------------------------------------------------------------------------
(* Account *)

ZeroBalance == [Asset |-> "", Free |-> 0, Lock |-> 0, Leverage |-> 0]

\* The loop of Balance from entry i on; st holds the four locals.  The
\* switch takes the first case that matches, and the loop is left once both
\* flags are set.
RECURSIVE BalanceLoop(_, _, _, _, _)
BalanceLoop(balances, i, assetTick, quoteTick, st) ==
    IF i > Len(balances)
    THEN st
    ELSE LET balance == balances[i]
             st1 == IF balance.Asset = assetTick
                    THEN [st EXCEPT !.assetBalance = balance,
                                    !.isSetAsset = TRUE]
                    ELSE IF balance.Asset = quoteTick
                         THEN [st EXCEPT !.quoteBalance = balance,
                                         !.isSetQuote = TRUE]
                         ELSE st
         IN  IF st1.isSetAsset /\ st1.isSetQuote
             THEN st1
             ELSE BalanceLoop(balances, i + 1, assetTick, quoteTick, st1)

\* (a Account) Balance(assetTick, quoteTick)
Balance(a, assetTick, quoteTick) ==
    LET st == BalanceLoop(a.Balances, 1, assetTick, quoteTick,
                          [assetBalance |-> ZeroBalance,
                           quoteBalance |-> ZeroBalance,
                           isSetAsset |-> FALSE, isSetQuote |-> FALSE])
    IN  <<st.assetBalance, st.quoteBalance>>

Assets == {"BTC", "USDT"}

Ticks == {"BTC", "USDT", "ETH"}

Balances ==
    {[Asset |-> a, Free |-> f * Scale, Lock |-> 0, Leverage |-> 0] :
        a \in Assets, f \in {1, 2}}

AcctInit ==
    /\ \E n \in 0..MaxAccount :
         \E bs \in [1..n -> Balances] : account = [Balances |-> bs]
    /\ balArgs = <<>>
    /\ balRes = <<>>

\* a.Balance(assetTick, quoteTick) for the two symbols of a trading pair.
DoBalance ==
    /\ \E assetTick \in Ticks, quoteTick \in Ticks :
         /\ assetTick # quoteTick
         /\ balArgs' = <<assetTick, quoteTick>>
         /\ balRes' = Balance(account, assetTick, quoteTick)
    /\ UNCHANGED account
    /\ UNCHANGED <<haVars, dfVars, lessVars>>

----------------------------------------------------------------------------
(* Candle.Less *)

\* t.Sub(u) for instants close enough that the Duration does not saturate.
Sub(t, u) == t - u

\* a < b on Go strings: byte-wise lexicographic order.
StrLess(a, b) ==
    \E k \in 1..Len(b) :
        /\ k - 1 <= Len(a)
        /\ \A j \in 1..(k - 1) : a[j] = b[j]
        /\ (Len(a) = k - 1 \/ a[k] < b[k])

\* Less that compares the pairs before the update times.
LessPairFirst(c, j) ==
    LET diff == Sub(j.Time, c.Time)
    IN  IF diff < 0 THEN FALSE
        ELSE IF diff > 0 THEN TRUE
        ELSE IF c.Pair # j.Pair THEN StrLess(c.Pair, j.Pair)
        ELSE Sub(j.UpdatedAt, c.UpdatedAt) > 0

\* (c Candle) Less(j)
Less(c, j) ==
    LET diff == Sub(j.Time, c.Time)
    IN  IF diff < 0 THEN FALSE
        ELSE IF diff > 0 THEN TRUE
        ELSE LET diff2 == Sub(j.UpdatedAt, c.UpdatedAt)
             IN  IF diff2 < 0 THEN FALSE
                 ELSE IF diff2 > 0 THEN TRUE
                 ELSE StrLess(c.Pair, j.Pair)

RECURSIVE StringsUpTo(_)
StringsUpTo(n) ==
    IF n = 0 THEN {<<>>}
    ELSE LET shorter == StringsUpTo(n - 1)
         IN  shorter \cup {Append(w, b) : w \in shorter, b \in {97, 98}}

Pairs == StringsUpTo(MaxPairLen)

OrderedCandles ==
    {[ZeroCandle EXCEPT !.Pair = p, !.Time = t, !.UpdatedAt = u] :
        p \in Pairs, t \in 0..MaxTime, u \in 0..MaxTime}

LessInit ==
    /\ ca \in OrderedCandles
    /\ cb \in OrderedCandles
    /\ lessRes = [done |-> FALSE, ab |-> FALSE, ba |-> FALSE]

DoLess ==
    /\ ~lessRes.done
    /\ lessRes' = [done |-> TRUE, ab |-> Less(ca, cb), ba |-> Less(cb, ca)]
    /\ UNCHANGED <<ca, cb>>
    /\ UNCHANGED <<haVars, dfVars, acctVars>>

----------------------------------------------------------------------------
(* Specifications.  Each runs one part of the package; the variables of    *)
(* the other parts rest at a fixed value.                                  *)

HAIdle == HAInit

DFIdle ==
    /\ mem = [Open |-> <<>>, Close |-> <<>>, High |-> <<>>, Low |-> <<>>,
              Volume |-> <<>>, Time |-> <<>>]
    /\ df = ZeroDataframe
    /\ s = ZeroDataframe
    /\ op = NoOp
    /\ pre = [mem |-> mem, df |-> df, s |-> s]
    /\ res = ZeroCandle
    /\ panicked = FALSE
    /\ steps = 0

AcctIdle ==
    /\ account = [Balances |-> <<>>]
    /\ balArgs = <<>>
    /\ balRes = <<>>

LessIdle ==
    /\ ca = ZeroCandle
    /\ cb = ZeroCandle
    /\ lessRes = [done |-> FALSE, ab |-> FALSE, ba |-> FALSE]

InitHA == HAInit /\ DFIdle /\ AcctIdle /\ LessIdle

NextHA == DoNewHeikinAshi \/ DoCalculateHeikinAshi

SpecHA == InitHA /\ [][NextHA]_vars

Init == HAIdle /\ DFInit /\ AcctIdle /\ LessIdle

Next == DoSample \/ DoToHeikinAshi \/ DoLast

Spec == Init /\ [][Next]_vars

InitAcct == HAIdle /\ DFIdle /\ AcctInit /\ LessIdle

NextAcct == DoBalance

SpecAcct == InitAcct /\ [][NextAcct]_vars

InitLess == HAIdle /\ DFIdle /\ AcctIdle /\ LessInit

NextLess == DoLess

SpecLess == InitLess /\ [][NextLess]_vars

----------------------------------------------------------------------------
(* Claims about the recurrence (SpecHA) *)

\* C1: every call after the first on a recurrence returns a candle whose
\* open is the average of the open and close of the candle the preceding
\* call stored; the self-seeding rule applies to the first call only.
C1_OpenFromStoredPrevious ==
    calls >= 2 => 2 * ret.Open = before.Open + before.Close

SetMax(S) == CHOOSE x \in S : \A y \in S : y <= x

SetMin(S) == CHOOSE x \in S : \A y \in S : x <= y

\* C2: the first call on a fresh recurrence returns open' = (open+close)/2,
\* close' = (open+high+low+close)/4, high' = max(high, open', close'),
\* low' = min(low, open', close') of the raw candle, and stores exactly that
\* candle as the previous candle.
C2_FirstCallSelfSeeds ==
    calls = 1 =>
        /\ 2 * ret.Open = raw.Open + raw.Close
        /\ 4 * ret.Close = raw.Open + raw.High + raw.Low + raw.Close
        /\ ret.High = SetMax({raw.High, ret.Open, ret.Close})
        /\ ret.Low = SetMin({raw.Low, ret.Open, ret.Close})
        /\ ha.PreviousHACandle = ret

\* C2 witness: a first call whose raw open and close differ and whose
\* smoothed high lies above the raw high.
C2_Witness ==
    /\ calls = 1
    /\ raw.Open # raw.Close
    /\ 2 * ret.Open = raw.Open + raw.Close
    /\ ret.High > raw.High
    /\ ha.PreviousHACandle = ret

Bracketed(c) ==
    /\ c.Low <= c.Open
    /\ c.Low <= c.Close
    /\ c.Open <= c.High
    /\ c.Close <= c.High

\* C10: after any calls, the returned candle and the stored previous candle
\* have low' <= min(open', close') and max(open', close') <= high', and the
\* stored previous candle has an empty pair and zero volume.
C10_SmoothedCandleBracketed ==
    /\ Bracketed(ret)
    /\ Bracketed(ha.PreviousHACandle)
    /\ ha.PreviousHACandle.Pair = <<>>
    /\ ha.PreviousHACandle.Volume = 0

\* C10 witness: a later call on a raw candle with low > high, a pair and a
\* volume, whose smoothed open and close differ.
C10_Witness ==
    /\ calls >= 2
    /\ raw.Low > raw.High
    /\ raw.Pair # <<>>
    /\ raw.Volume # 0
    /\ ret.Open # ret.Close
    /\ ha.PreviousHACandle = ret

----------------------------------------------------------------------------
(* Claims about Account.Balance (SpecAcct) *)

\* The first entry of bs, in order, whose asset is tick; the zero Balance
\* when there is none.
FirstMatch(bs, tick) ==
    IF \E i \in 1..Len(bs) : bs[i].Asset = tick
    THEN bs[CHOOSE i \in 1..Len(bs) :
                /\ bs[i].Asset = tick
                /\ \A j \in 1..(i - 1) : bs[j].Asset # tick]
    ELSE ZeroBalance

\* C5: Balance(assetTick, quoteTick) returns in each slot the first entry in
\* Balances order whose asset is the slot's symbol, and the zero Balance for
\* a symbol no entry has.
C5_FirstMatchOrZero ==
    balArgs # <<>> =>
        /\ balRes[1] = FirstMatch(account.Balances, balArgs[1])
        /\ balRes[2] = FirstMatch(account.Balances, balArgs[2])

----------------------------------------------------------------------------
(* Claims about Candle.Less (SpecLess) *)

LexLess(a, b) ==
    \/ a.Time < b.Time
    \/ a.Time = b.Time /\ a.UpdatedAt < b.UpdatedAt
    \/ a.Time = b.Time /\ a.UpdatedAt = b.UpdatedAt /\ StrLess(a.Pair, b.Pair)

\* C7: A.Less(B) is the strict lexicographic order on (time, updatedAt,
\* pair); A.Less(B) and B.Less(A) are never both true, and exactly one is
\* true when A and B differ in time, updatedAt or pair.
C7_LessIsStrictLexicographic ==
    lessRes.done =>
        /\ lessRes.ab = LexLess(ca, cb)
        /\ lessRes.ba = LexLess(cb, ca)
        /\ ~(lessRes.ab /\ lessRes.ba)
        /\ (ca.Time # cb.Time \/ ca.UpdatedAt # cb.UpdatedAt
              \/ ca.Pair # cb.Pair) => (lessRes.ab # lessRes.ba)

\* C7 witness: two candles equal in time and updatedAt with pairs "a" and
\* "b", compared both ways.
C7_Witness ==
    /\ lessRes.done
    /\ ca.Time = cb.Time
    /\ ca.UpdatedAt = cb.UpdatedAt
    /\ ca.Pair = <<97>>
    /\ cb.Pair = <<98>>
    /\ lessRes.ab
    /\ ~lessRes.ba

----------------------------------------------------------------------------
(* Claims about the series, its samples and their shared storage (Spec) *)

\* The receiver of the last operation, as the operation found it and as it
\* is now.
PreReceiver == IF op.target = "df" THEN pre.df ELSE pre.s

PostReceiver == IF op.target = "df" THEN df ELSE s

LastN(q, n) == SubSeq(q, Len(q) - n + 1, Len(q))

\* The lengths of the sequences of series d.
Lengths(d) ==
    {d[col].len : col \in CoreColSet}
        \cup {Len(d.ChangePercent), Len(d.IsBullMarket)}

\* The sequences of d that hold anything all have one length.
Aligned(d) ==
    \A a \in Lengths(d), b \in Lengths(d) : (a > 0 /\ b > 0) => a = b

\* C3: every populated sequence of a series (close, open, high, low, volume,
\* time, and changePercent and isBullMarket once populated) has the same
\* length after any ToHeikinAshi and Sample operations, in the dataframe
\* Sample returns too.
C3_PopulatedSequencesAligned == Aligned(df) /\ Aligned(s)

\* What Sample(op.n) owes its caller: no panic, the storage untouched, the
\* receiver itself when n >= its length, and otherwise the last n entries
\* of each core column with every other field as the receiver has it.
SampleContract ==
    /\ ~panicked
    /\ mem = pre.mem
    /\ IF op.n >= PreReceiver.Time.len
       THEN s = PreReceiver
       ELSE /\ \A col \in CoreColSet :
                 View(mem, col, s[col])
                   = LastN(View(pre.mem, col, PreReceiver[col]), op.n)
            /\ \A f \in DOMAIN s \ CoreColSet : s[f] = PreReceiver[f]

\* C4 as stated: for every integer n, Sample(n) returns the input when
\* n >= len and the last n entries of close, open, low, high, volume and
\* time when n < len, without raising an error.
C4_SampleEveryInteger == op.name = "Sample" => SampleContract

\* C4 amended: for every integer n >= 0, Sample(n) returns the input when
\* n >= len and the last n entries of close, open, low, high, volume and
\* time, index-aligned, when n < len, without raising an error.
C4_SampleNonNegative == (op.name = "Sample" /\ op.n >= 0) => SampleContract

\* C4 witness: a sample of 1 or more entries, fewer than the series has,
\* taken from a dataframe that is itself a window into the storage.
C4_Witness ==
    /\ op.name = "Sample"
    /\ ~panicked
    /\ 0 < op.n
    /\ op.n < PreReceiver.Time.len
    /\ PreReceiver.Time.off > 0
    /\ s.Time.len = op.n

\* C6: on a series of length len > 0, Last() is the candle of index len-1
\* and Last(k) the candle of index len-1-k for 0 <= k < len; on an empty
\* series Last returns, without error, the zero candle, which is Empty.
C6_LastIsCandleFromTheEnd ==
    op.name = "Last" =>
        LET d == PostReceiver
            length == d.Close.len
            k == IF op.index = <<>> THEN 0 ELSE op.index[1]
        IN  IF length = 0
            THEN ~panicked /\ res = ZeroCandle /\ Empty(res)
            ELSE (0 <= k /\ k < length) =>
                    /\ ~panicked
                    /\ res = [ZeroCandle EXCEPT
                         !.Time = View(mem, "Time", d.Time)[length - k],
                         !.Open = View(mem, "Open", d.Open)[length - k],
                         !.Close = View(mem, "Close", d.Close)[length - k],
                         !.Low = View(mem, "Low", d.Low)[length - k],
                         !.High = View(mem, "High", d.High)[length - k],
                         !.Volume = View(mem, "Volume", d.Volume)[length - k]]

\* C6 witness: Last(1) on a sample of two or more entries that starts
\* inside the storage.
C6_Witness ==
    /\ op.name = "Last"
    /\ op.target = "s"
    /\ op.index = <<1>>
    /\ s.Close.len >= 2
    /\ s.Close.off > 0
    /\ ~panicked
    /\ res.Time = s.Close.off + s.Close.len - 1

\* The raw candles of series d, in order.
CandlesOf(d, m) == [j \in 1..d.Time.len |-> CandleAt(d, m, j - 1)]

\* The functional scan: the recurrence and the smoothed candle after raw
\* candles cs[1..i], starting from a fresh recurrence.
RECURSIVE ScanHA(_, _)
ScanHA(cs, i) ==
    CalculateHeikinAshi(IF i = 1 THEN NewHeikinAshi ELSE ScanHA(cs, i - 1).ha,
                        cs[i])

\* Series d in storage m holds, index by index, the scan of raw candles cs.
HoldsScan(d, m, cs) ==
    \A i \in 1..Len(cs) :
        LET hk == ScanHA(cs, i).ret
        IN  /\ Load(m, "Open", d.Open, i - 1) = hk.Open
            /\ Load(m, "Close", d.Close, i - 1) = hk.Close
            /\ Load(m, "Low", d.Low, i - 1) = hk.Low
            /\ Load(m, "High", d.High, i - 1) = hk.High

\* C8: ToHeikinAshi leaves in place what a left-to-right scan of the
\* original raw candles with one fresh recurrence gives: open, close, low
\* and high of index i are the i-th smoothed candle, isBullMarket[i] is true
\* iff the new close[i] > the new open[i], volume and time are unchanged and
\* IsHeikinAshi is true.
C8_ToHeikinAshiIsScan ==
    op.name = "ToHeikinAshi" =>
        LET cs == CandlesOf(PreReceiver, pre.mem)
            out == PostReceiver
        IN  /\ ~panicked
            /\ \A col \in CoreColSet : out[col] = PreReceiver[col]
            /\ HoldsScan(out, mem, cs)
            /\ Len(out.IsBullMarket) = Len(cs)
            /\ \A i \in 1..Len(cs) :
                  /\ out.IsBullMarket[i]
                       <=> (ScanHA(cs, i).ret.Close > ScanHA(cs, i).ret.Open)
                  /\ Load(mem, "Volume", out.Volume, i - 1) = cs[i].Volume
                  /\ Load(mem, "Time", out.Time, i - 1) = cs[i].Time
            /\ out.IsHeikinAshi

\* C8 witness: a conversion of a series of three candles that changes the
\* storage and finds both a bull and a non-bull candle, the third candle's
\* open coming from the second smoothed candle.
C8_Witness ==
    /\ op.name = "ToHeikinAshi"
    /\ ~panicked
    /\ PostReceiver.Time.len = 3
    /\ mem # pre.mem
    /\ PostReceiver.IsBullMarket[2]
    /\ ~PostReceiver.IsBullMarket[3]
    /\ 2 * Load(mem, "Open", PostReceiver.Open, 2)
         = Load(mem, "Open", PostReceiver.Open, 1)
             + Load(mem, "Close", PostReceiver.Close, 1)
    /\ 2 * Load(mem, "Open", PostReceiver.Open, 2)
         # Load(pre.mem, "Open", PostReceiver.Open, 2)
             + Load(pre.mem, "Close", PostReceiver.Close, 2)

\* sm is the window of the last n entries of d, 0 < n < the length of d.
IsProperSample(sm, d) ==
    /\ 0 < sm.Time.len
    /\ sm.Time.len < d.Time.len
    /\ \A col \in CoreColSet :
          /\ d[col].len = d.Time.len
          /\ sm[col].len = sm.Time.len
          /\ sm[col].off = d[col].off + (d.Time.len - sm.Time.len)

\* C9: Sample leaves the dataframe and the storage unchanged, but the sample
\* shares the storage: s.ToHeikinAshi() on the sample s of the last n
\* entries of df, 0 < n < len, overwrites the last n entries of df's open,
\* close, low and high with the sample's smoothed values, leaves the first
\* len-n entries unchanged and leaves df.IsHeikinAshi, df.ChangePercent and
\* df.IsBullMarket as they were.
C9_SampleSharesStorage ==
    /\ op.name = "Sample" => (df = pre.df /\ mem = pre.mem)
    /\ (op.name = "ToHeikinAshi" /\ op.target = "s"
          /\ IsProperSample(pre.s, pre.df)) =>
          LET len == pre.df.Time.len
              n == pre.s.Time.len
          IN  /\ ~panicked
              /\ df = pre.df
              /\ HoldsScan(s, mem, CandlesOf(pre.s, pre.mem))
              /\ \A col \in {"Open", "Close", "Low", "High"} :
                    \A j \in 1..len :
                       View(mem, col, df[col])[j]
                         = IF j <= len - n
                           THEN View(pre.mem, col, pre.df[col])[j]
                           ELSE View(mem, col, s[col])[j - (len - n)]

\* C9 witness: the sample of the last two of three entries is converted,
\* the dataframe's last open changes with it, and only the sample is
\* flagged as converted.
C9_Witness ==
    /\ op.name = "ToHeikinAshi"
    /\ op.target = "s"
    /\ IsProperSample(pre.s, pre.df)
    /\ pre.df.Time.len = 3
    /\ pre.s.Time.len = 2
    /\ ~panicked
    /\ Load(mem, "Open", df.Open, 2) # Load(pre.mem, "Open", df.Open, 2)
    /\ Load(mem, "Open", df.Open, 2) = Load(mem, "Open", s.Open, 1)
    /\ s.IsHeikinAshi
    /\ ~df.IsHeikinAshi
    /\ df.ChangePercent = <<>>

====
